---- MODULE Spec2Model ----
(***************************************************************************)
(* The array-based limit order book of marketlearn/orderbook/lob.py        *)
(* (class Book).  The book is two integer arrays indexed like the price    *)
(* array; the order operations read and write them with numpy boolean      *)
(* masks.  A Python exception is modelled as an outcome of the call: the   *)
(* call ends there, with whatever it had already written.                  *)
(*                                                                         *)
(* numpy arrays are sequences here: numpy index k is sequence index k+1.   *)
(***************************************************************************)
EXTENDS Integers, Sequences, FiniteSets, TLC

VARIABLES
    bid_size,   \* Book.bid_size: resting buy quantity per ladder cell
    ask_size,   \* Book.ask_size: resting sell quantity per ladder cell
    prev_bid,   \* history: bid_size as it was before the most recent call
    prev_ask,   \* history: ask_size as it was before the most recent call
    calls,      \* history: the calls made on the book so far, oldest first
    budget,     \* number of calls the run may still make
    mc,         \* the locals of the Markov estimator that is running, if any
    instances   \* two Book objects with the arrays they refer to, if built

vars == <<bid_size, ask_size, prev_bid, prev_ask, calls, budget, mc, instances>>

----------------------------------------------------------------------------
(* Bounds of the model.                                                    *)

\* Largest qty passed to an order operation.
MaxQty == 2
\* Number of calls in a run that starts from the constructed book.
MaxOps == 2
\* Largest quantity in a cell of the ladders of the family LadderFamily.
MaxCell == 2
\* Trials of an estimator call (its argument n), its starting queue sizes,
\* and the largest queue size at which the estimators' loop is followed.
MaxTrials == 2
MaxStart == 2
MaxQueue == 2

(* Program constants.                                                      *)
\* self._levels: ticks on each side of 0; the ladder has 2 * 1000 + 1 cells.
_levels == 1000
_depth == 5
\* Events of the burn-in of sfgk_simulate and cst_simulate.
BurnIn == 1000
\* The default rates of the estimators' send_orders, in hundredths.
Mu == 94
Lamda == 185
Theta == 71

\* Prices the explored calls draw from: on-ladder ticks around 0 (on both
\* sides of, and at, the initial best quotes -1 and 1).
Prices == {-1, 0, 1, 2}
\* Prices next to the ladder's ends, outside it.
OffLadder == {-_levels - 1, _levels + 1}
Qtys == 1..MaxQty
\* cancelable_orders of a cancel without a price: None, 0 or a count.
CancelableInputs == {<<>>, <<0>>, <<3>>}
\* Ticks whose cells vary in the ladders of LadderFamily.
FamilyTicks == {-1, 0, 1}
\* Arguments <<mu, lamda, theta, L>> of sfgk_model: cancels only, every
\* event kind, and all rates zero.
SfgkInputs == {<<0, 0, 1, 1>>, <<1, 1, 1, 2>>, <<0, 0, 0, 1>>}
\* Arguments <<mu, lamdas, thetas, L>> of cst_model: every event kind, and
\* all rates zero.
CstInputs == {<<1, <<1, 1>>, <<1, 1>>, 2>>, <<0, <<0>>, <<0>>, 1>>}
\* band of book_shape.
BandInputs == {0, 1, 2, _levels}
\* max_events / numEvents of the simulation drivers.
MaxEventsInputs == {1, 2}

----------------------------------------------------------------------------
(* numpy primitives used by the book.                                      *)

NpRepeat(v, n) == [i \in 1..n |-> v]

NpArange(lo, hi) == [i \in 1..(hi - lo) |-> lo + i - 1]

NpAppend(a, b) == a \o b

\* a[m] for a boolean mask m: the elements of a where m holds, in order.
BoolIndex(a, m) ==
    LET idx == SelectSeq([i \in 1..Len(a) |-> i], LAMBDA i : m[i])
    IN  [k \in 1..Len(idx) |-> a[idx[k]]]

\* a[m] = v for a boolean mask m.
MaskAssign(a, m, v) == [i \in 1..Len(a) |-> IF m[i] THEN v ELSE a[i]]

Min2(x, y) == IF x <= y THEN x ELSE y

Max2(x, y) == IF x >= y THEN x ELSE y

RECURSIVE MinOver(_, _, _)
\* The least of a[lo..hi], by halves.
MinOver(a, lo, hi) ==
    IF lo = hi THEN a[lo]
    ELSE Min2(MinOver(a, lo, (lo + hi) \div 2), MinOver(a, (lo + hi) \div 2 + 1, hi))

RECURSIVE MaxOver(_, _, _)
\* The greatest of a[lo..hi], by halves.
MaxOver(a, lo, hi) ==
    IF lo = hi THEN a[lo]
    ELSE Max2(MaxOver(a, lo, (lo + hi) \div 2), MaxOver(a, (lo + hi) \div 2 + 1, hi))

\* a.min() / a.max() of a non-empty array.
NpMin(a) == MinOver(a, 1, Len(a))

NpMax(a) == MaxOver(a, 1, Len(a))

----------------------------------------------------------------------------
(* Construction.                                                           *)

_get_levels == _levels

_get_depth == _depth

\* self.price = np.arange(-self._levels, self._levels + 1)
PriceArray(pl) == NpArange(-pl, pl + 1)

price == PriceArray(_get_levels)

\* Mutant of _initialize_orders: the ask taper starts at tick 0 instead of
\* tick 1 (the leading 0 of the appended list dropped).
_initialize_orders_shifted(d, pl) ==
    LET buy1  == NpRepeat(d, pl - 8)
        buy2  == NpAppend(buy1, <<5, 4, 4, 3, 3, 2, 2, 1>>)
        sell1 == NpRepeat(0, pl)
        buy3  == NpAppend(buy2, NpRepeat(0, pl + 1))
        sell2 == NpAppend(sell1, <<1, 2, 2, 3, 3, 4, 4, 5>>)
        sell3 == NpAppend(sell2, NpRepeat(d, pl - 7))
    IN  <<buy3, sell3>>

\* <<buy_orders, sell_orders>> for depth d and pl levels.
_initialize_orders(d, pl) ==
    LET buy1  == NpRepeat(d, pl - 8)
        buy2  == NpAppend(buy1, <<5, 4, 4, 3, 3, 2, 2, 1>>)
        sell1 == NpRepeat(0, pl)
        buy3  == NpAppend(buy2, NpRepeat(0, pl + 1))
        sell2 == NpAppend(sell1, <<0, 1, 2, 2, 3, 3, 4, 4, 5>>)
        sell3 == NpAppend(sell2, NpRepeat(d, pl - 8))
    IN  <<buy3, sell3>>

----------------------------------------------------------------------------
(* Outcomes of a call.  A call returns the record                          *)
(*   [outcome, bid_size, ask_size, value]                                  *)
(* outcome is "ok" or the name of the exception raised; value is <<v>> for *)
(* a returned v and <<>> for None or no return.                            *)

Return(bid, ask, v) ==
    [outcome |-> "ok", bid_size |-> bid, ask_size |-> ask, value |-> v]

Raise(bid, ask, exc) ==
    [outcome |-> exc, bid_size |-> bid, ask_size |-> ask, value |-> <<>>]

\* self.price == p
PriceEq(p) == [i \in 1..Len(price) |-> price[i] = p]

\* self.<side> > 0
Positive(a) == [i \in 1..Len(a) |-> a[i] > 0]

----------------------------------------------------------------------------
(* Queries.                                                                *)

\* Mutant of best_ask: an empty ask side yields the price 0 instead of an
\* exception.
best_ask_default(bid, ask) ==
    LET c == BoolIndex(price, Positive(ask))
    IN  IF Len(c) = 0 THEN Return(bid, ask, <<0>>)
        ELSE Return(bid, ask, <<NpMin(c)>>)

\* self.price[self.ask_size > 0].min(): numpy raises ValueError for the
\* minimum of an empty array.
best_ask(bid, ask) ==
    LET c == BoolIndex(price, Positive(ask))
    IN  IF Len(c) = 0 THEN Raise(bid, ask, "ValueError")
        ELSE Return(bid, ask, <<NpMin(c)>>)

\* Mutant of best_bid: the lowest occupied bid price.
best_bid_lowest(bid, ask) ==
    LET c == BoolIndex(price, Positive(bid))
    IN  IF Len(c) = 0 THEN Raise(bid, ask, "ValueError")
        ELSE Return(bid, ask, <<NpMin(c)>>)

\* self.price[self.bid_size > 0].max()
best_bid(bid, ask) ==
    LET c == BoolIndex(price, Positive(bid))
    IN  IF Len(c) = 0 THEN Raise(bid, ask, "ValueError")
        ELSE Return(bid, ask, <<NpMax(c)>>)

\* self.best_ask() - self.best_bid(): the left operand is evaluated first.
spread(bid, ask) ==
    LET a == best_ask(bid, ask)
        b == best_bid(bid, ask)
    IN  IF a.outcome # "ok" THEN a
        ELSE IF b.outcome # "ok" THEN b
        ELSE Return(bid, ask, <<a.value[1] - b.value[1]>>)

\* (self.best_ask() + self.best_bid()) * 0.5: a float, kept as the exact
\* fraction <<numerator, denominator>>.
mid(bid, ask) ==
    LET a == best_ask(bid, ask)
        b == best_bid(bid, ask)
    IN  IF a.outcome # "ok" THEN a
        ELSE IF b.outcome # "ok" THEN b
        ELSE Return(bid, ask, <<a.value[1] + b.value[1], 2>>)

----------------------------------------------------------------------------
(* Order operations.                                                       *)

\* Mutant of market_buy: every order at the best ask is removed.
market_buy_all(bid, ask, qty) ==
    LET p == best_ask(bid, ask)
    IN  IF p.outcome # "ok" THEN p
        ELSE Return(bid, MaskAssign(ask, PriceEq(p.value[1]), 0), <<>>)

market_buy(bid, ask, qty) ==
    LET p == best_ask(bid, ask)
    IN  IF p.outcome # "ok" THEN p
        ELSE LET m == PriceEq(p.value[1])
                 remaining_orders == BoolIndex(ask, m)[1] - qty
             IN  Return(bid, MaskAssign(ask, m, remaining_orders), <<>>)

\* Mutant of market_sell: the price is taken from best_ask().
market_sell_at_ask(bid, ask, qty) ==
    LET p == best_ask(bid, ask)
    IN  IF p.outcome # "ok" THEN p
        ELSE LET m == PriceEq(p.value[1])
                 remaining_orders == BoolIndex(bid, m)[1] - qty
             IN  Return(MaskAssign(bid, m, remaining_orders), ask, <<>>)

market_sell(bid, ask, qty) ==
    LET p == best_bid(bid, ask)
    IN  IF p.outcome # "ok" THEN p
        ELSE LET m == PriceEq(p.value[1])
                 remaining_orders == BoolIndex(bid, m)[1] - qty
             IN  Return(MaskAssign(bid, m, remaining_orders), ask, <<>>)

\* Mutant of limit_buy: a buy at or above the best ask is matched against
\* it instead of resting.
limit_buy_matching(bid, ask, p, qty) ==
    LET m   == PriceEq(p)
        sel == BoolIndex(bid, m)
        a   == best_ask(bid, ask)
    IN  IF Len(sel) = 0 THEN Raise(bid, ask, "IndexError")
        ELSE IF a.outcome = "ok" /\ a.value[1] <= p THEN market_buy(bid, ask, qty)
        ELSE Return(MaskAssign(bid, m, sel[1] + qty), ask, <<>>)

\* self.bid_size[self.price == price][0] raises IndexError when no cell of
\* the ladder has that price.
limit_buy(bid, ask, p, qty) ==
    LET m   == PriceEq(p)
        sel == BoolIndex(bid, m)
    IN  IF Len(sel) = 0 THEN Raise(bid, ask, "IndexError")
        ELSE Return(MaskAssign(bid, m, sel[1] + qty), ask, <<>>)

\* A variant that places an order priced off the ladder at the nearest end.
limit_sell_clipped(bid, ask, p, qty) ==
    LET q   == IF p > _levels THEN _levels ELSE IF p < -_levels THEN -_levels ELSE p
        m   == PriceEq(q)
        sel == BoolIndex(ask, m)
    IN  IF Len(sel) = 0 THEN Raise(bid, ask, "IndexError")
        ELSE Return(bid, MaskAssign(ask, m, sel[1] + qty), <<>>)

limit_sell(bid, ask, p, qty) ==
    LET m   == PriceEq(p)
        sel == BoolIndex(ask, m)
    IN  IF Len(sel) = 0 THEN Raise(bid, ask, "IndexError")
        ELSE Return(bid, MaskAssign(ask, m, sel[1] + qty), <<>>)

\* np.random.choice(np.arange(1, price_level + 1), 1)[0] with prob None:
\* the set of values the draw can return, or the exception.  price_level is
\* <<>> for None (None + 1 is a TypeError) or <<n>>; choice raises
\* ValueError on an empty array.
choose(price_level) ==
    IF price_level = <<>> THEN [outcome |-> "TypeError", draws |-> {}]
    ELSE IF price_level[1] < 1 THEN [outcome |-> "ValueError", draws |-> {}]
    ELSE [outcome |-> "ok", draws |-> 1..price_level[1]]

\* Mutant of cancel_buy: one unit is cancelled whatever qty is.
cancel_buy_unit(bid, ask, pr, cancelable_orders, qty) ==
    IF pr # <<>>
    THEN LET m   == PriceEq(pr[1])
             sel == BoolIndex(bid, m)
         IN  IF Len(sel) = 0 THEN Raise(bid, ask, "IndexError")
             ELSE Return(MaskAssign(bid, m, sel[1] - 1), ask, <<>>)
    ELSE LET q == choose(cancelable_orders)
         IN  IF q.outcome # "ok" THEN Raise(bid, ask, q.outcome)
             ELSE Raise(bid, ask, "AttributeError")

\* pr is <<>> for price None, else <<price>>.  Without a price the branch
\* draws q and then reads self.buy_size, an attribute the Book never sets:
\* AttributeError, whatever q was drawn.
cancel_buy(bid, ask, pr, cancelable_orders, qty) ==
    IF pr # <<>>
    THEN LET m   == PriceEq(pr[1])
             sel == BoolIndex(bid, m)
         IN  IF Len(sel) = 0 THEN Raise(bid, ask, "IndexError")
             ELSE Return(MaskAssign(bid, m, sel[1] - qty), ask, <<>>)
    ELSE LET q == choose(cancelable_orders)
         IN  IF q.outcome # "ok" THEN Raise(bid, ask, q.outcome)
             ELSE Raise(bid, ask, "AttributeError")

\* With a price: remaining_orders is computed from self.ask_size, then the
\* assignment target self.sell_size is an attribute the Book never sets:
\* AttributeError, and ask_size is not written.
cancel_sell(bid, ask, pr, cancelable_orders, qty) ==
    IF pr # <<>>
    THEN LET m   == PriceEq(pr[1])
             sel == BoolIndex(ask, m)
         IN  IF Len(sel) = 0 THEN Raise(bid, ask, "IndexError")
             ELSE Raise(bid, ask, "AttributeError")
    ELSE LET q == choose(cancelable_orders)
         IN  IF q.outcome # "ok" THEN Raise(bid, ask, q.outcome)
             ELSE Raise(bid, ask, "AttributeError")

----------------------------------------------------------------------------
(* Event models.  Both begin by reading self.buy_size, an attribute the    *)
(* Book never sets (it sets bid_size and ask_size), so on every input the  *)
(* call raises AttributeError in its first statement: no rate is computed, *)
(* no event is drawn and no order operation is invoked.                    *)
(*                                                                         *)
(* The calls of this layer return the record                               *)
(*   [outcome, bid_size, ask_size, value, event, weights, gathered,        *)
(*    invocations, samples]                                                *)
(* event is <<kind>> for the event kind drawn, <<kind, d>> when cst_model  *)
(* also drew the distance d, and <<>> when no event was drawn,             *)
(* weights the six event weights once computed (<<>> before), gathered the *)
(* pair <<cb, cs>> of cst_model once gathered (<<>> before), invocations   *)
(* the number of event-model calls made, samples the number of book_shape  *)
(* samples taken.                                                          *)

ModelRaise(bid, ask, exc) ==
    [outcome |-> exc, bid_size |-> bid, ask_size |-> ask, value |-> <<>>,
     event |-> <<>>, weights |-> <<>>, gathered |-> <<>>,
     invocations |-> 1, samples |-> 0]

\* The result of an event model that generated event ev by the order
\* operation with result r.
Generated(r, ev) ==
    [outcome |-> r.outcome, bid_size |-> r.bid_size, ask_size |-> r.ask_size,
     value |-> <<>>, event |-> IF r.outcome = "ok" THEN ev ELSE <<>>,
     weights |-> <<>>, gathered |-> <<>>, invocations |-> 1, samples |-> 0]

\* limit_buy(price = best_ask() + q), a being the result of best_ask().
LimitBuyAbove(bid, ask, a, q) ==
    IF a.outcome # "ok" THEN a ELSE limit_buy(bid, ask, a.value[1] + q, 1)

\* cancel_buy(price = best_ask() - q), a being the result of best_ask().
CancelBuyBelow(bid, ask, a, q) ==
    IF a.outcome # "ok" THEN a ELSE cancel_buy(bid, ask, <<a.value[1] - q>>, <<>>, 1)

\* A variant of sfgk_model whose limit buy lands q = L ticks above the best
\* ask instead of below it.
sfgk_model_limit_above(bid, ask, mu, lamda, theta, L) ==
    Generated(LimitBuyAbove(bid, ask, best_ask(bid, ask), L), <<"limit_buy", L>>)

\* A variant of sfgk_model whose cancel takes the tick L below the best ask
\* whatever it holds.
sfgk_model_cancel_any(bid, ask, mu, lamda, theta, L) ==
    Generated(CancelBuyBelow(bid, ask, best_ask(bid, ask), L), <<"cancel_buy">>)

\* A variant of cst_model whose cancel draws the distance L whatever rests
\* there.
cst_model_cancel_far(bid, ask, mu, lamdas, thetas, L) ==
    Generated(CancelBuyBelow(bid, ask, best_ask(bid, ask), L), <<"cancel_buy", L>>)

\* net_buys = self.buy_size[...]: AttributeError.
sfgk_model(bid, ask, mu, lamda, theta, L) == ModelRaise(bid, ask, "AttributeError")

\* cb = self.buy_size[...]: AttributeError.
cst_model(bid, ask, mu, lamdas, thetas, L) == ModelRaise(bid, ask, "AttributeError")

----------------------------------------------------------------------------
(* Book shape and the simulation drivers.                                  *)

\* a[idx] for a sequence idx of numpy indices (0-based, negative ones count
\* from the end): <<>> stands for the IndexError of an index outside
\* -len..len-1, <<values>> is the result otherwise.
FancyIndex(a, idx) ==
    IF \E k \in 1..Len(idx) : idx[k] < -Len(a) \/ idx[k] > Len(a) - 1
    THEN <<>>
    ELSE <<[k \in 1..Len(idx) |->
              a[(IF idx[k] < 0 THEN idx[k] + Len(a) ELSE idx[k]) + 1]]>>

\* np.where(self.price == v)[0][0] + 1
PositionOf(v) == CHOOSE i \in 1..Len(price) : price[i] = v

\* The position of the quote that query result q holds, or q's exception.
Positioned(q) ==
    IF q.outcome # "ok" THEN q ELSE [q EXCEPT !.value = <<PositionOf(q.value[1])>>]

_bid_position(bid, ask) == Positioned(best_bid(bid, ask))

_ask_position(bid, ask) == Positioned(best_ask(bid, ask))

\* A variant of MidOf that rounds the mean of the two positions upward.
MidOfCeil(bp, ap) ==
    IF bp.outcome # "ok" THEN bp
    ELSE IF ap.outcome # "ok" THEN ap
    ELSE [bp EXCEPT !.value = <<(bp.value[1] + ap.value[1] + 1) \div 2>>]

\* int(floor((bp + ap) * 0.5)) of two positions, the bid's evaluated first.
MidOf(bp, ap) ==
    IF bp.outcome # "ok" THEN bp
    ELSE IF ap.outcome # "ok" THEN ap
    ELSE [bp EXCEPT !.value = <<(bp.value[1] + ap.value[1]) \div 2>>]

_mid_position(bid, ask) == MidOf(_bid_position(bid, ask), _ask_position(bid, ask))

\* np.append(buy_qty, sell_qty) of two selections made by FancyIndex.
ShapeOf(bid, ask, buy_qty, sell_qty) ==
    IF buy_qty = <<>> \/ sell_qty = <<>> THEN Raise(bid, ask, "IndexError")
    ELSE Return(bid, ask, NpAppend(buy_qty[1], sell_qty[1]))

\* The shape around mid position m (a result of _mid_position):
\* bid_size[m + np.arange(-band-1, 0)], ask_size[m + np.arange(band)].
ShapeAt(bid, ask, band, m) ==
    IF m.outcome # "ok" THEN m
    ELSE ShapeOf(bid, ask,
                 FancyIndex(bid, [k \in 1..(band + 1) |-> m.value[1] - band - 2 + k]),
                 FancyIndex(ask, [k \in 1..band |-> m.value[1] + k - 1]))

book_shape(bid, ask, band) == ShapeAt(bid, ask, band, _mid_position(bid, ask))

\* The result of a driver: the outcome and arrays of r, the value returned,
\* the event-model calls made and the book_shape samples taken.
DriverResult(r, value, invocations, samples) ==
    [outcome |-> r.outcome, bid_size |-> r.bid_size, ask_size |-> r.ask_size,
     value |-> value, event |-> <<>>, weights |-> <<>>, gathered |-> <<>>,
     invocations |-> invocations, samples |-> samples]

\* The event model a driver calls: sfgk_simulate calls sfgk_model,
\* cst_simulate calls cst_model, with the driver's arguments a.
event_model(kind, bid, ask, a) ==
    IF kind = "sfgk" THEN sfgk_model(bid, ask, a[1], a[2], a[3], a[4])
    ELSE cst_model(bid, ask, a[1], a[2], a[3], a[4])

RECURSIVE BurnInLoop(_, _, _, _, _, _)
RECURSIVE AfterBurnInEvent(_, _, _, _, _)
\* for _ in range(n): self.<kind>_model(...), done calls having been made;
\* the loop ends at the first call that raises.
BurnInLoop(kind, bid, ask, a, n, done) ==
    IF n <= 0 THEN DriverResult(Return(bid, ask, <<>>), <<>>, done, 0)
    ELSE AfterBurnInEvent(kind, event_model(kind, bid, ask, a), a, n, done)

AfterBurnInEvent(kind, r, a, n, done) ==
    IF r.outcome # "ok" THEN DriverResult(r, <<>>, done + 1, 0)
    ELSE BurnInLoop(kind, r.bid_size, r.ask_size, a, n - 1, done + 1)

RECURSIVE SampleLoop(_, _, _, _, _, _, _, _)
RECURSIVE AfterSampleEvent(_, _, _, _, _, _, _)
RECURSIVE AfterSample(_, _, _, _, _, _, _)
\* The sampling loop with n events left: one event, then one sample added
\* to acc (the sums, each to be divided by max_events).
SampleLoop(kind, bid, ask, a, n, acc, done, samples) ==
    IF n <= 0 THEN DriverResult(Return(bid, ask, <<>>), acc, done, samples)
    ELSE AfterSampleEvent(kind, event_model(kind, bid, ask, a), a, n, acc, done, samples)

AfterSampleEvent(kind, r, a, n, acc, done, samples) ==
    IF r.outcome # "ok" THEN DriverResult(r, <<>>, done + 1, samples)
    ELSE AfterSample(kind, book_shape(r.bid_size, r.ask_size, a[4]), a, n, acc,
                     done + 1, samples)

AfterSample(kind, sh, a, n, acc, done, samples) ==
    IF sh.outcome # "ok" THEN DriverResult(sh, <<>>, done, samples)
    ELSE SampleLoop(kind, sh.bid_size, sh.ask_size, a, n - 1,
                    [k \in 1..Len(acc) |-> acc[k] + sh.value[k]], done, samples + 1)

\* The first sample, taken after the burn-in, and the sampling loop of
\* range(1, n).
FirstSample(kind, first, a, n, done) ==
    IF first.outcome # "ok" THEN DriverResult(first, <<>>, done, 0)
    ELSE SampleLoop(kind, first.bid_size, first.ask_size, a, n - 1, first.value, done, 1)

AfterBurnIn(kind, burn, a, n) ==
    IF burn.outcome # "ok" THEN burn
    ELSE FirstSample(kind, book_shape(burn.bid_size, burn.ask_size, a[4]), a, n,
                     burn.invocations)

\* The body shared by the drivers: burn-in, first sample, sampling loop.  The
\* value is the sequence of sums.
Simulate(kind, bid, ask, a, n) ==
    AfterBurnIn(kind, BurnInLoop(kind, bid, ask, a, BurnIn, 0), a, n)

\* return avg_book_shape: the averages, each a pair <<sum, max_events>>.
SfgkAverage(run, max_events) ==
    IF run.outcome # "ok" THEN run
    ELSE [run EXCEPT !.value = [k \in 1..Len(run.value) |-> <<run.value[k], max_events>>]]

sfgk_simulate(bid, ask, mu, lamda, theta, L, max_events) ==
    SfgkAverage(Simulate("sfgk", bid, ask, <<mu, lamda, theta, L>>, max_events), max_events)

\* The average at the mid followed by, for each distance 1..L, the mean of
\* the bid-side and ask-side averages at that distance.
CstAverage(run, L, numEvents) ==
    IF run.outcome # "ok" THEN run
    ELSE [run EXCEPT !.value =
             NpAppend(<<<<run.value[L + 1], numEvents>>>>,
                      [k \in 1..L |-> <<run.value[L + 1 - k] + run.value[L + 1 + k],
                                        2 * numEvents>>])]

cst_simulate(bid, ask, mu, lamdas, thetas, L, numEvents) ==
    CstAverage(Simulate("cst", bid, ask, <<mu, lamdas, thetas, L>>, numEvents), L, numEvents)

----------------------------------------------------------------------------
(* The state machine: one action per public call on the book.              *)

\* No estimator is running.
Idle == [fn |-> "none"]

\* No second Book has been built.
NoInstances == [built |-> FALSE]

\* The record kept in calls for one call.  pr and cancelable_orders are <<>>
\* where the call has no such argument or it is None; qty is 0 where the call
\* takes none.
CallRecord(op, pr, cancelable_orders, qty, res) ==
    [op |-> op, price |-> pr, cancelable_orders |-> cancelable_orders,
     qty |-> qty, outcome |-> res.outcome, value |-> res.value]

\* A call leaves the arrays as its outcome record has them.
Apply(op, pr, cancelable_orders, qty, res) ==
    /\ budget > 0
    /\ budget' = budget - 1
    /\ bid_size' = res.bid_size
    /\ ask_size' = res.ask_size
    /\ prev_bid' = bid_size
    /\ prev_ask' = ask_size
    /\ calls' = Append(calls, CallRecord(op, pr, cancelable_orders, qty, res))
    /\ mc' = mc
    /\ instances' = instances

\* The record kept in calls for a call of the event layer: args are the
\* call's arguments, the other added fields those of its result.
EventRecord(op, args, res) ==
    [op |-> op, price |-> <<>>, cancelable_orders |-> <<>>, qty |-> 0,
     outcome |-> res.outcome, value |-> res.value, args |-> args,
     event |-> res.event, weights |-> res.weights, gathered |-> res.gathered,
     invocations |-> res.invocations, samples |-> res.samples]

ApplyEvent(op, args, res) ==
    /\ budget > 0
    /\ budget' = budget - 1
    /\ bid_size' = res.bid_size
    /\ ask_size' = res.ask_size
    /\ prev_bid' = bid_size
    /\ prev_ask' = ask_size
    /\ calls' = Append(calls, EventRecord(op, args, res))
    /\ mc' = mc
    /\ instances' = instances

CallBestAsk == Apply("best_ask", <<>>, <<>>, 0, best_ask(bid_size, ask_size))

CallBestBid == Apply("best_bid", <<>>, <<>>, 0, best_bid(bid_size, ask_size))

CallSpread == Apply("spread", <<>>, <<>>, 0, spread(bid_size, ask_size))

CallMid == Apply("mid", <<>>, <<>>, 0, mid(bid_size, ask_size))

CallMarketBuy ==
    \E qty \in Qtys :
        Apply("market_buy", <<>>, <<>>, qty, market_buy(bid_size, ask_size, qty))

CallMarketSell ==
    \E qty \in Qtys :
        Apply("market_sell", <<>>, <<>>, qty, market_sell(bid_size, ask_size, qty))

CallLimitBuy ==
    \E p \in Prices \cup OffLadder, qty \in Qtys :
        Apply("limit_buy", <<p>>, <<>>, qty, limit_buy(bid_size, ask_size, p, qty))

CallLimitSell ==
    \E p \in Prices \cup OffLadder, qty \in Qtys :
        Apply("limit_sell", <<p>>, <<>>, qty, limit_sell(bid_size, ask_size, p, qty))

CallCancelBuy ==
    \/ \E p \in Prices \cup OffLadder, qty \in Qtys :
          Apply("cancel_buy", <<p>>, <<>>, qty,
                cancel_buy(bid_size, ask_size, <<p>>, <<>>, qty))
    \/ \E n \in CancelableInputs :
          Apply("cancel_buy", <<>>, n, 1,
                cancel_buy(bid_size, ask_size, <<>>, n, 1))

CallCancelSell ==
    \/ \E p \in Prices \cup OffLadder, qty \in Qtys :
          Apply("cancel_sell", <<p>>, <<>>, qty,
                cancel_sell(bid_size, ask_size, <<p>>, <<>>, qty))
    \/ \E n \in CancelableInputs :
          Apply("cancel_sell", <<>>, n, 1,
                cancel_sell(bid_size, ask_size, <<>>, n, 1))

CallSfgkModel ==
    \E a \in SfgkInputs :
        ApplyEvent("sfgk_model", a, sfgk_model(bid_size, ask_size, a[1], a[2], a[3], a[4]))

CallCstModel ==
    \E a \in CstInputs :
        ApplyEvent("cst_model", a, cst_model(bid_size, ask_size, a[1], a[2], a[3], a[4]))

CallSfgkSimulate ==
    \E a \in SfgkInputs, n \in MaxEventsInputs :
        ApplyEvent("sfgk_simulate", Append(a, n),
                   sfgk_simulate(bid_size, ask_size, a[1], a[2], a[3], a[4], n))

CallCstSimulate ==
    \E a \in CstInputs, n \in MaxEventsInputs :
        ApplyEvent("cst_simulate", Append(a, n),
                   cst_simulate(bid_size, ask_size, a[1], a[2], a[3], a[4], n))

Next ==
    \/ CallBestAsk
    \/ CallBestBid
    \/ CallSpread
    \/ CallMid
    \/ CallMarketBuy
    \/ CallMarketSell
    \/ CallLimitBuy
    \/ CallLimitSell
    \/ CallCancelBuy
    \/ CallCancelSell
    \/ CallSfgkModel
    \/ CallCstModel

\* Book.__init__: the arrays of _initialize_orders.
Init ==
    LET o == _initialize_orders(_get_depth, _get_levels)
    IN  /\ bid_size = o[1]
        /\ ask_size = o[2]
        /\ prev_bid = o[1]
        /\ prev_ask = o[2]
        /\ calls = <<>>
        /\ budget = MaxOps
        /\ mc = Idle
        /\ instances = NoInstances

\* Runs of at most MaxOps calls on the constructed book.
Spec == Init /\ [][Next]_vars

\* The ladders of the family: every cell outside FamilyTicks is 0 on both
\* sides, every cell at a tick of FamilyTicks holds 0..MaxCell on either
\* side.  The book reaches each of them from the constructed one: market
\* orders empty a side level by level, limit orders then put any quantity at
\* any tick.  The family holds the books with an empty side, with gaps
\* between occupied ticks, and with crossed quotes.
LadderOf(f) == [i \in 1..Len(price) |-> IF price[i] \in FamilyTicks THEN f[price[i]] ELSE 0]

LadderFamily == {LadderOf(f) : f \in [FamilyTicks -> 0..MaxCell]}

\* The ladders set against each ladder of the family on the other side: the
\* empty one, and one unit at each of the ticks -1 and 0.
Opposite == {LadderOf([t \in FamilyTicks |-> 0]),
             LadderOf([t \in FamilyTicks |-> IF t <= 0 THEN 1 ELSE 0])}

InitLadders ==
    /\ \/ bid_size \in LadderFamily /\ ask_size \in Opposite
       \/ bid_size \in Opposite /\ ask_size \in LadderFamily
    /\ prev_bid = bid_size
    /\ prev_ask = ask_size
    /\ calls = <<>>
    /\ budget = 1
    /\ mc = Idle
    /\ instances = NoInstances

\* One call on each ladder of the family.
SpecLadders == InitLadders /\ [][Next]_vars

\* The result of book_shape as a result of the event layer.
ShapeResult(sh) == DriverResult(sh, sh.value, 0, 0)

\* book_shape(band); BandInputs holds bands that fit around every mid of
\* the family and one that does not.
CallBookShape ==
    \E band \in BandInputs :
        ApplyEvent("book_shape", <<band>>, ShapeResult(book_shape(bid_size, ask_size, band)))

\* One book_shape call on each ladder of the family.
SpecShape == InitLadders /\ [][CallBookShape]_vars

\* The calls of the event layer.
NextEvents ==
    \/ CallSfgkModel
    \/ CallCstModel
    \/ CallSfgkSimulate
    \/ CallCstSimulate

\* The ladders of the family with bids at tick -1 only / asks at tick 1
\* only: the books with both sides, one side or no side occupied.
BidLadders == {LadderOf(f) : f \in {g \in [FamilyTicks -> 0..MaxCell] : g[0] = 0 /\ g[1] = 0}}

AskLadders == {LadderOf(f) : f \in {g \in [FamilyTicks -> 0..MaxCell] : g[-1] = 0 /\ g[0] = 0}}

InitEvents ==
    /\ bid_size \in BidLadders
    /\ ask_size \in AskLadders
    /\ prev_bid = bid_size
    /\ prev_ask = ask_size
    /\ calls = <<>>
    /\ budget = MaxOps
    /\ mc = Idle
    /\ instances = NoInstances

\* Runs of at most MaxOps event-layer calls on each of these ladders.
SpecEvents == InitEvents /\ [][NextEvents]_vars

\* The books the event models are run from: the constructed one and the
\* small ones of InitEvents.
EventBooks == {_initialize_orders(_get_depth, _get_levels)} \cup (BidLadders \X AskLadders)

InitGenerated ==
    /\ \E b \in EventBooks : bid_size = b[1] /\ ask_size = b[2]
    /\ prev_bid = bid_size
    /\ prev_ask = ask_size
    /\ calls = <<>>
    /\ budget = MaxOps
    /\ mc = Idle
    /\ instances = NoInstances

NextGenerated ==
    \/ CallSfgkModel
    \/ CallCstModel

\* Runs of at most MaxOps calls of sfgk_model and cst_model.
SpecGenerated == InitGenerated /\ [][NextGenerated]_vars

----------------------------------------------------------------------------
(* Two Book objects.  Python objects hold references to their arrays, so   *)
(* the arrays live in a heap of numbered cells and each instance holds the *)
(* numbers of its bid_size and ask_size.  instances holds                  *)
(*   refs   for each instance, the cells of its two arrays,                *)
(*   heap   the array in each cell,                                        *)
(*   solo   for each instance, the arrays it would hold had only its own   *)
(*          calls run, in their order, on a Book of its own,               *)
(*   done   the number of calls made on each instance,                     *)
(*   actor  the instance of the last call (0 before the first),            *)
(*   rest   the arrays the other instance held before the last call.       *)

Instances == {1, 2}

\* A variant of the constructor that keeps the arrays in the class: every
\* instance refers to the same two cells.
NewBookShared(k) == [bid |-> 1, ask |-> 2]

\* Book.__init__ for the k-th object built: _initialize_orders returns two
\* new arrays, which the object keeps in cells no other object refers to.
NewBook(k) == [bid |-> 2 * k - 1, ask |-> 2 * k]

\* The arrays instance k refers to.
ArraysOf(w, k) == [bid_size |-> w.heap[w.refs[k].bid], ask_size |-> w.heap[w.refs[k].ask]]

\* The calls made on the instances: <<op, price, qty>>.
InstanceCalls ==
    {<<"limit_buy", -1, 1>>, <<"limit_sell", 0, 1>>, <<"market_sell", 0, 2>>,
     <<"cancel_buy", -1, 1>>}

\* The outcome of call c on a Book holding the arrays of b.
RunCall(c, b) ==
    CASE c[1] = "limit_buy"   -> limit_buy(b.bid_size, b.ask_size, c[2], c[3])
      [] c[1] = "limit_sell"  -> limit_sell(b.bid_size, b.ask_size, c[2], c[3])
      [] c[1] = "market_sell" -> market_sell(b.bid_size, b.ask_size, c[3])
      [] c[1] = "cancel_buy"  -> cancel_buy(b.bid_size, b.ask_size, <<c[2]>>, <<>>, c[3])

\* The heap after a call on instance k with outcome res: the call assigns
\* into the arrays self.bid_size and self.ask_size refer to.
Stored(w, k, res) ==
    [w.heap EXCEPT ![w.refs[k].bid] = res.bid_size, ![w.refs[k].ask] = res.ask_size]

\* The world after a call on instance k that had outcome res on its arrays
\* and alone on its solo arrays.
AfterCall(w, k, res, alone) ==
    [w EXCEPT !.heap = Stored(w, k, res),
              !.solo[k] = [bid_size |-> alone.bid_size, ask_size |-> alone.ask_size],
              !.done[k] = w.done[k] + 1,
              !.actor = k,
              !.rest = ArraysOf(w, 3 - k)]

\* Two Book() calls.
BuildInstances(o) ==
    [built |-> TRUE,
     refs  |-> [k \in Instances |-> NewBook(k)],
     heap  |-> [c \in 1..4 |-> IF c % 2 = 1 THEN o[1] ELSE o[2]],
     solo  |-> [k \in Instances |-> [bid_size |-> o[1], ask_size |-> o[2]]],
     done  |-> [k \in Instances |-> 0],
     actor |-> 0,
     rest  |-> [bid_size |-> o[1], ask_size |-> o[2]]]

\* One call on one of the instances, in any interleaving.
CallOnInstance ==
    /\ instances.built
    /\ \E k \in Instances, c \in InstanceCalls :
          /\ instances.done[k] < MaxOps
          /\ instances' = AfterCall(instances, k, RunCall(c, ArraysOf(instances, k)),
                                    RunCall(c, instances.solo[k]))
    /\ UNCHANGED <<bid_size, ask_size, prev_bid, prev_ask, calls, budget, mc>>

InitInstances ==
    /\ bid_size = _initialize_orders(_get_depth, _get_levels)[1]
    /\ ask_size = _initialize_orders(_get_depth, _get_levels)[2]
    /\ prev_bid = bid_size
    /\ prev_ask = ask_size
    /\ calls = <<>>
    /\ budget = 0
    /\ mc = Idle
    /\ instances = BuildInstances(_initialize_orders(_get_depth, _get_levels))

\* At most MaxOps calls on each of two Books, interleaved in every way.
SpecInstances == InitInstances /\ [][CallOnInstance]_vars

----------------------------------------------------------------------------
(* The Markov estimators.  A call runs n trials; a trial repeats           *)
(* send_orders, which draws one event and moves the queue sizes, until the *)
(* loop's test ends it.  One action is one pass of the while loop: the     *)
(* draw, the move, the test and, when the trial ends, the start of the     *)
(* next trial or the return.  mc holds the call's arguments (n, xb, xs,    *)
(* dpos), the locals at the head of the loop (i, count, qb_old, qs_old,    *)
(* d_old), the place of control pc ("loop", "returned", "raised"), and of  *)
(* the last pass: the draw ans (-1 before the first pass and when the draw *)
(* raised), the values send_orders was called with (qb_from, qs_from,      *)
(* d_from), the values it returned (qb_new, qs_new, d_new), the count      *)
(* before the pass and the test's verdict.  prob_making_spread keeps its   *)
(* bid_pos in dpos and the d_ fields (b_old, b_new in the source) and its  *)
(* ask_pos in apos and the a_ fields, which the other estimators leave 0.  *)

\* np.random.choice(np.arange(len(w)), size=1, p=w/sum(w))[0] for weights w
\* of positive sum: <<>> stands for the ValueError of a negative
\* probability, <<S>> holds the set S of values the draw can return.
NpChoice(w) ==
    IF \E k \in 1..Len(w) : w[k] < 0 THEN <<>>
    ELSE <<{k - 1 : k \in {j \in 1..Len(w) : w[j] > 0}}>>

\* The call as entered: count = 0 and the first trial's locals set, or,
\* with n = 0, the ZeroDivisionError of count / n after no trial.
EnterEstimator(fn, n, xb, xs, dpos) ==
    [fn |-> fn, n |-> n, xb |-> xb, xs |-> xs, dpos |-> dpos,
     i |-> 0, count |-> 0, qb_old |-> xb, qs_old |-> xs, d_old |-> dpos,
     pc |-> IF n = 0 THEN "raised" ELSE "loop",
     outcome |-> IF n = 0 THEN "ZeroDivisionError" ELSE "running",
     value |-> <<>>,
     ans |-> -1, qb_from |-> xb, qs_from |-> xs, d_from |-> dpos,
     qb_new |-> xb, qs_new |-> xs, d_new |-> dpos,
     count_from |-> 0, verdict |-> "none",
     apos |-> 0, a_old |-> 0, a_from |-> 0, a_new |-> 0]

\* A variant of Pass in which a trial that ends leaves its last state to
\* the next trial.
PassCarry(m, ans, new, verdict) ==
    LET count == IF verdict = "success" THEN m.count + 1 ELSE m.count
        ended == verdict # "continue"
        last  == ended /\ m.i + 1 = m.n
    IN  [m EXCEPT
           !.ans = ans,
           !.qb_from = m.qb_old, !.qs_from = m.qs_old, !.d_from = m.d_old,
           !.qb_new = new[1], !.qs_new = new[2], !.d_new = new[3],
           !.count_from = m.count, !.verdict = verdict,
           !.count = count,
           !.i = IF ended THEN m.i + 1 ELSE m.i,
           !.qb_old = new[1],
           !.qs_old = new[2],
           !.d_old = new[3],
           !.a_from = m.a_old,
           !.a_new = IF Len(new) = 4 THEN new[4] ELSE m.a_new,
           !.a_old = IF Len(new) = 4 THEN new[4] ELSE m.a_old,
           !.pc = IF last THEN "returned" ELSE "loop",
           !.outcome = IF last THEN "ok" ELSE "running",
           !.value = IF last THEN <<count, m.n>> ELSE <<>>]

\* One pass of the while loop in which send_orders returned new (a triple
\* <<xb, xs, d>>) for the draw ans and the test gave verdict: "success"
\* (count += 1; break), "fail" (break) or "continue".  A break starts the
\* next trial from the call's arguments, or returns count / n after the
\* last one; the value is the pair <<count, n>>.
Pass(m, ans, new, verdict) ==
    LET count == IF verdict = "success" THEN m.count + 1 ELSE m.count
        ended == verdict # "continue"
        last  == ended /\ m.i + 1 = m.n
    IN  [m EXCEPT
           !.ans = ans,
           !.qb_from = m.qb_old, !.qs_from = m.qs_old, !.d_from = m.d_old,
           !.qb_new = new[1], !.qs_new = new[2], !.d_new = new[3],
           !.count_from = m.count, !.verdict = verdict,
           !.count = count,
           !.i = IF ended THEN m.i + 1 ELSE m.i,
           !.qb_old = IF ended THEN m.xb ELSE new[1],
           !.qs_old = IF ended THEN m.xs ELSE new[2],
           !.d_old = IF ended THEN m.dpos ELSE new[3],
           !.a_from = m.a_old,
           !.a_new = IF Len(new) = 4 THEN new[4] ELSE m.a_new,
           !.a_old = IF ended THEN m.apos ELSE IF Len(new) = 4 THEN new[4] ELSE m.a_old,
           !.pc = IF last THEN "returned" ELSE "loop",
           !.outcome = IF last THEN "ok" ELSE "running",
           !.value = IF last THEN <<count, m.n>> ELSE <<>>]

\* A pass in which send_orders raised exc: the call ends with it.
PassRaise(m, exc) ==
    [m EXCEPT !.ans = -1,
              !.qb_from = m.qb_old, !.qs_from = m.qs_old, !.d_from = m.d_old,
              !.a_from = m.a_old,
              !.count_from = m.count, !.verdict = "raised",
              !.pc = "raised", !.outcome = exc]

\* prob_mid's send_orders: the event weights, and the move for draw ans.
prob_mid_pevent(xb, xs) == <<Lamda, Lamda, Mu + Theta * xb, Mu + Theta * xs>>

prob_mid_send_orders(xb, xs, ans) ==
    CASE ans = 0 -> <<xb + 1, xs, 0>>
      [] ans = 1 -> <<xb, xs + 1, 0>>
      [] ans = 2 -> <<xb - 1, xs, 0>>
      [] ans = 3 -> <<xb, xs - 1, 0>>

\* A variant of the test that counts the trial when the bid side empties.
prob_mid_test_bid(qb_new, qs_new) ==
    IF qb_new = 0 THEN "success"
    ELSE IF qs_new = 0 THEN "fail"
    ELSE "continue"

\* if qb_new == 0: break / elif qs_new == 0: count += 1; break
prob_mid_test(qb_new, qs_new) ==
    IF qb_new = 0 THEN "fail"
    ELSE IF qs_new = 0 THEN "success"
    ELSE "continue"

\* limit_order_prob's send_orders.  reduce is the truth of
\* r > (xb - d) / (xb - 1) for the draw r of np.random.uniform(), read only
\* when ans = 3.
limit_order_prob_pevent(xb, xs) ==
    <<Lamda, Lamda, Mu, Theta * (xb - 1), Mu + Theta * xs>>

\* The truth values r > (xb - d) / (xb - 1) can take for r in [0, 1), where
\* xb >= 2: true for some r iff the ratio is below 1, false for some r
\* (among them r = 0.0) iff the ratio is at least 0.
Reduces(xb, d) ==
    {b \in BOOLEAN : IF b THEN xb - d < xb - 1 ELSE xb - d >= 0}

limit_order_prob_send_orders(xb, xs, d, ans, reduce) ==
    CASE ans = 0 -> <<xb + 1, xs, d>>
      [] ans = 1 -> <<xb, xs + 1, d>>
      [] ans = 2 -> <<xb - 1, xs, IF d > 0 THEN d - 1 ELSE d>>
      [] ans = 3 -> <<xb - 1, xs, IF reduce THEN d - 1 ELSE d>>
      [] ans = 4 -> <<xb, xs - 1, d>>

\* A variant of the test that counts the trial when the ask side empties.
limit_order_prob_test_ask(qs_new, d_new) ==
    IF qs_new = 0 THEN "success"
    ELSE IF d_new = 0 THEN "fail"
    ELSE "continue"

\* if d_new == 0: count += 1; break / elif qs_new == 0 and d_new > 0: break
limit_order_prob_test(qs_new, d_new) ==
    IF d_new = 0 THEN "success"
    ELSE IF qs_new = 0 /\ d_new > 0 THEN "fail"
    ELSE "continue"

CallProbMid ==
    /\ mc = Idle
    /\ \E n \in 0..MaxTrials, xb \in 1..MaxStart, xs \in 1..MaxStart :
          mc' = EnterEstimator("prob_mid", n, xb, xs, 0)
    /\ UNCHANGED <<bid_size, ask_size, prev_bid, prev_ask, calls, budget, instances>>

\* The queues grow without bound in the source.  The loop is followed from
\* every head whose queues are within MaxQueue, with every draw the source
\* can make there; a head beyond it is reached and not followed further.
Explored(m) == m.qb_old <= MaxQueue /\ m.qs_old <= MaxQueue

PassProbMid ==
    /\ mc # Idle /\ mc.fn = "prob_mid" /\ mc.pc = "loop" /\ Explored(mc)
    /\ LET c == NpChoice(prob_mid_pevent(mc.qb_old, mc.qs_old))
       IN  IF c = <<>> THEN mc' = PassRaise(mc, "ValueError")
           ELSE \E ans \in c[1] :
                   LET new == prob_mid_send_orders(mc.qb_old, mc.qs_old, ans)
                   IN  mc' = Pass(mc, ans, new, prob_mid_test(new[1], new[2]))
    /\ UNCHANGED <<bid_size, ask_size, prev_bid, prev_ask, calls, budget, instances>>

CallLimitOrderProb ==
    /\ mc = Idle
    /\ \E n \in 0..MaxTrials, xb \in 1..MaxStart, xs \in 1..MaxStart :
          \E dpos \in 1..xb :
              mc' = EnterEstimator("limit_order_prob", n, xb, xs, dpos)
    /\ UNCHANGED <<bid_size, ask_size, prev_bid, prev_ask, calls, budget, instances>>

PassLimitOrderProb ==
    /\ mc # Idle /\ mc.fn = "limit_order_prob" /\ mc.pc = "loop" /\ Explored(mc)
    /\ LET c == NpChoice(limit_order_prob_pevent(mc.qb_old, mc.qs_old))
       IN  IF c = <<>> THEN mc' = PassRaise(mc, "ValueError")
           ELSE \E ans \in c[1] :
                   \E reduce \in (IF ans = 3 THEN Reduces(mc.qb_old, mc.d_old) ELSE {FALSE}) :
                       LET new == limit_order_prob_send_orders(
                                      mc.qb_old, mc.qs_old, mc.d_old, ans, reduce)
                       IN  mc' = Pass(mc, ans, new, limit_order_prob_test(new[2], new[3]))
    /\ UNCHANGED <<bid_size, ask_size, prev_bid, prev_ask, calls, budget, instances>>

\* prob_making_spread's send_orders.  The cancel rates leave out the
\* agent's own order while it waits (position > 0).
spread_rate(x, pos) == IF pos = 0 THEN x ELSE x - 1

prob_making_spread_pevent(xb, xs, bid_pos, ask_pos) ==
    <<Lamda, Lamda, Mu, Mu,
      Theta * spread_rate(xb, bid_pos), Theta * spread_rate(xs, ask_pos)>>

\* The truth values r > (x - pos) / rate can take for r in [0, 1), where
\* rate > 0: true for some r iff the ratio is below 1, false for some r
\* (among them r = 0.0) iff the ratio is at least 0.
SpreadReduces(x, pos) ==
    {b \in BOOLEAN : IF b THEN x - pos < spread_rate(x, pos) ELSE x - pos >= 0}

prob_making_spread_send_orders(xb, xs, bid_pos, ask_pos, ans, reduce) ==
    CASE ans = 0 -> <<xb + 1, xs, bid_pos, ask_pos>>
      [] ans = 1 -> <<xb, xs + 1, bid_pos, ask_pos>>
      [] ans = 2 -> <<xb - 1, xs, IF bid_pos > 0 THEN bid_pos - 1 ELSE bid_pos, ask_pos>>
      [] ans = 3 -> <<xb, xs - 1, bid_pos, IF ask_pos > 0 THEN ask_pos - 1 ELSE ask_pos>>
      [] ans = 4 -> <<xb - 1, xs, IF reduce THEN bid_pos - 1 ELSE bid_pos, ask_pos>>
      [] ans = 5 -> <<xb, xs - 1, bid_pos, IF reduce THEN ask_pos - 1 ELSE ask_pos>>

\* A variant of the test that counts the trial when either order is filled.
prob_making_spread_test_either(qb_new, qs_new, b_new, a_new) ==
    IF b_new = 0 \/ a_new = 0 THEN "success"
    ELSE IF qb_new = 0 /\ a_new > 0 THEN "fail"
    ELSE IF qs_new = 0 /\ b_new > 0 THEN "fail"
    ELSE "continue"

\* if b_new == 0 and a_new == 0: count += 1; break
\* elif qb_new == 0 and a_new > 0: break
\* elif qs_new == 0 and b_new > 0: break
prob_making_spread_test(qb_new, qs_new, b_new, a_new) ==
    IF b_new = 0 /\ a_new = 0 THEN "success"
    ELSE IF qb_new = 0 /\ a_new > 0 THEN "fail"
    ELSE IF qs_new = 0 /\ b_new > 0 THEN "fail"
    ELSE "continue"

\* The call as entered, with both positions set.
EnterSpread(n, xb, xs, bid_pos, ask_pos) ==
    [EnterEstimator("prob_making_spread", n, xb, xs, bid_pos) EXCEPT
        !.apos = ask_pos, !.a_old = ask_pos, !.a_from = ask_pos, !.a_new = ask_pos]

CallProbMakingSpread ==
    /\ mc = Idle
    /\ \E n \in 0..MaxTrials, xb \in 1..MaxStart, xs \in 1..MaxStart :
          \E bid_pos \in 1..xb, ask_pos \in 1..xs :
              mc' = EnterSpread(n, xb, xs, bid_pos, ask_pos)
    /\ UNCHANGED <<bid_size, ask_size, prev_bid, prev_ask, calls, budget, instances>>

PassProbMakingSpread ==
    /\ mc # Idle /\ mc.fn = "prob_making_spread" /\ mc.pc = "loop" /\ Explored(mc)
    /\ LET c == NpChoice(prob_making_spread_pevent(mc.qb_old, mc.qs_old, mc.d_old, mc.a_old))
       IN  IF c = <<>> THEN mc' = PassRaise(mc, "ValueError")
           ELSE \E ans \in c[1] :
                   \E reduce \in (CASE ans = 4 -> SpreadReduces(mc.qb_old, mc.d_old)
                                    [] ans = 5 -> SpreadReduces(mc.qs_old, mc.a_old)
                                    [] OTHER -> {FALSE}) :
                       LET new == prob_making_spread_send_orders(
                                      mc.qb_old, mc.qs_old, mc.d_old, mc.a_old, ans, reduce)
                       IN  mc' = Pass(mc, ans, new,
                                      prob_making_spread_test(new[1], new[2], new[3], new[4]))
    /\ UNCHANGED <<bid_size, ask_size, prev_bid, prev_ask, calls, budget, instances>>

NextEstimators ==
    \/ CallProbMid
    \/ PassProbMid
    \/ CallLimitOrderProb
    \/ PassLimitOrderProb
    \/ CallProbMakingSpread
    \/ PassProbMakingSpread

\* Estimator calls on the constructed book.
SpecEstimators == Init /\ [][NextEstimators]_vars

\* The draw that takes one order off the ask queue: element 3 of prob_mid's
\* pevent (market buy or cancel), element 4 of limit_order_prob's and
\* element 3 of prob_making_spread's (market buy).  Its weight holds mu, so
\* np.random.choice gives it a positive probability in every queue state.
AskDown(fn) ==
    CASE fn = "prob_mid" -> 3
      [] fn = "limit_order_prob" -> 4
      [] fn = "prob_making_spread" -> 3

\* A pass of the running estimator that draws AskDown with v orders in the
\* ask queue.
DrawAskDownAt(v) ==
    /\ mc # Idle /\ mc.pc = "loop" /\ mc.qs_old = v
    /\ NextEstimators
    /\ mc'.ans = AskDown(mc.fn)

PassEstimators == PassProbMid \/ PassLimitOrderProb \/ PassProbMakingSpread

\* Fair event selection: a running call goes on to its next pass, and a
\* draw of positive probability that is offered again and again in the same
\* queue state is taken there in the end.
FairSelection ==
    /\ WF_vars(PassEstimators)
    /\ \A v \in 1..MaxQueue : SF_vars(DrawAskDownAt(v))

\* Estimator calls under fair event selection.
SpecEstimatorsFair == Init /\ [][NextEstimators]_vars /\ FairSelection

----------------------------------------------------------------------------
(* Vocabulary of the properties: the ladder by tick, stated without the    *)
(* operators above.                                                        *)

Ticks == -_levels.._levels

\* The cell of array a at tick t (price[t + _levels + 1] = t).
Cell(a, t) == a[t + _levels + 1]

\* Array a with the cell at tick t set to v.
WithCell(a, t, v) == [a EXCEPT ![t + _levels + 1] = v]

Occupied(a) == {t \in Ticks : Cell(a, t) > 0}

Lowest(S) == CHOOSE x \in S : \A y \in S : x <= y

Highest(S) == CHOOSE x \in S : \A y \in S : x >= y

Called == Len(calls) > 0

Last == calls[Len(calls)]

Unchanged == bid_size = prev_bid /\ ask_size = prev_ask

\* The spec's EmptyBookError is, in the source, the ValueError numpy raises
\* for the minimum or maximum of an empty array.
EmptyBookError == "ValueError"

----------------------------------------------------------------------------
\* C1: in every state reached from the constructed ladder by order
\* operations of qty 1 at on-ladder prices (or by the event models), every
\* cell of bid_size and of ask_size is >= 0.
C1_NonNegative ==
    (\A i \in 1..Len(calls) : calls[i].qty \in {0, 1})
        => \A t \in Ticks : Cell(bid_size, t) >= 0 /\ Cell(ask_size, t) >= 0

\* C2: whenever both sides hold a positive cell, spread() is >= 0.
C2_SpreadNonNegative ==
    LET s == spread(bid_size, ask_size)
    IN  (Occupied(bid_size) # {} /\ Occupied(ask_size) # {})
            => (s.outcome = "ok" /\ s.value[1] >= 0)

\* C3: limit_buy(p, q) immediately followed by cancel_buy(price=p, qty=q)
\* completes and leaves bid_size and ask_size as they were before the
\* limit_buy.
C3_RoundTrip ==
    [][(/\ Called
        /\ Last.op = "limit_buy" /\ Last.outcome = "ok"
        /\ Len(calls') = Len(calls) + 1
        /\ calls'[Len(calls')].op = "cancel_buy"
        /\ calls'[Len(calls')].price = Last.price
        /\ calls'[Len(calls')].qty = Last.qty)
       => (/\ calls'[Len(calls')].outcome = "ok"
           /\ bid_size' = prev_bid
           /\ ask_size' = prev_ask)]_vars

\* A round trip with q = 2 has been made at a cell that holds a resting
\* quantity of 1.
C3_Witness ==
    /\ Len(calls) >= 2
    /\ calls[Len(calls) - 1].op = "limit_buy"
    /\ calls[Len(calls) - 1].outcome = "ok"
    /\ calls[Len(calls) - 1].qty = 2
    /\ Last.op = "cancel_buy"
    /\ Last.price = calls[Len(calls) - 1].price
    /\ Last.qty = 2
    /\ Last.outcome = "ok"
    /\ Cell(bid_size, Last.price[1]) = 1

\* C4: cancel_sell(price=p, qty=q) at an on-ladder price completes and
\* takes exactly q off ask_size[p], leaving every other cell of both sides.
C4_CancelSellByPrice ==
    (Called /\ Last.op = "cancel_sell" /\ Last.price # <<>>
            /\ Last.price[1] \in Ticks)
        => /\ Last.outcome = "ok"
           /\ ask_size = WithCell(prev_ask, Last.price[1],
                                  Cell(prev_ask, Last.price[1]) - Last.qty)
           /\ bid_size = prev_bid

\* C5: market_buy(qty=1) on a book whose best ask is p with quantity k > 0
\* completes with ask_size[p] = k-1, every other ask cell and all of
\* bid_size unchanged; afterwards best_ask() is still p if k-1 > 0, and the
\* next higher occupied ask tick if k-1 = 0 (and there is one).
C5_MarketBuy ==
    (Called /\ Last.op = "market_buy" /\ Last.qty = 1 /\ Occupied(prev_ask) # {})
        => LET p == Lowest(Occupied(prev_ask))
               k == Cell(prev_ask, p)
               higher == {t \in Occupied(prev_ask) : t > p}
               after == best_ask(bid_size, ask_size)
           IN  /\ Last.outcome = "ok"
               /\ ask_size = WithCell(prev_ask, p, k - 1)
               /\ bid_size = prev_bid
               /\ k - 1 > 0 => after.value = <<p>>
               /\ (k - 1 = 0 /\ higher # {}) => after.value = <<Lowest(higher)>>
               /\ (k - 1 = 0 /\ higher = {}) => after.outcome = EmptyBookError

\* market_buy(1) has emptied the best ask and the best ask moved over a gap.
C5_Witness ==
    /\ Called /\ Last.op = "market_buy" /\ Last.qty = 1 /\ Last.outcome = "ok"
    /\ Cell(prev_ask, -1) = 1 /\ Cell(prev_ask, 0) = 0 /\ Cell(prev_ask, 1) = 2
    /\ Cell(ask_size, -1) = 0
    /\ best_ask(bid_size, ask_size).value = <<1>>

\* C6: market_sell(qty=1) on a book whose best bid is p with quantity k > 0
\* completes with bid_size[p] = k-1, every other bid cell and all of
\* ask_size unchanged; afterwards best_bid() is still p if k-1 > 0, and the
\* next lower occupied bid tick if k-1 = 0 (and there is one).
C6_MarketSell ==
    (Called /\ Last.op = "market_sell" /\ Last.qty = 1 /\ Occupied(prev_bid) # {})
        => LET p == Highest(Occupied(prev_bid))
               k == Cell(prev_bid, p)
               lower == {t \in Occupied(prev_bid) : t < p}
               after == best_bid(bid_size, ask_size)
           IN  /\ Last.outcome = "ok"
               /\ bid_size = WithCell(prev_bid, p, k - 1)
               /\ ask_size = prev_ask
               /\ k - 1 > 0 => after.value = <<p>>
               /\ (k - 1 = 0 /\ lower # {}) => after.value = <<Highest(lower)>>
               /\ (k - 1 = 0 /\ lower = {}) => after.outcome = EmptyBookError

\* market_sell(1) has emptied the best bid and the best bid moved over a gap.
C6_Witness ==
    /\ Called /\ Last.op = "market_sell" /\ Last.qty = 1 /\ Last.outcome = "ok"
    /\ Cell(prev_bid, 1) = 1 /\ Cell(prev_bid, 0) = 0 /\ Cell(prev_bid, -1) = 2
    /\ Cell(bid_size, 1) = 0
    /\ best_bid(bid_size, ask_size).value = <<-1>>

\* The shape C7 gives the constructed arrays: o is the pair <<bid, ask>> of
\* a ladder of pl levels, read by tick.
InitialShape(o, pl) ==
    LET bid(t) == o[1][t + pl + 1]
        ask(t) == o[2][t + pl + 1]
        taper  == <<1, 2, 2, 3, 3, 4, 4, 5>>
    IN  /\ Len(o[1]) = 2 * pl + 1
        /\ Len(o[2]) = 2 * pl + 1
        /\ \A t \in -pl..0 : ask(t) = 0
        /\ \A t \in 0..pl : bid(t) = 0
        /\ \A d \in 1..8 : bid(-d) = taper[d] /\ ask(d) = taper[d]
        /\ \A d \in 9..pl : bid(-d) = 5 /\ ask(d) = 5
        /\ \A t \in -pl..pl : ask(t) = bid(-t)

\* C7: the ladder of the constructor with levels=1000, depth=5 has 2001
\* cells a side, no ask at ticks <= 0, no bid at ticks >= 0, the taper
\* 1,2,2,3,3,4,4,5 over the 8 ticks next to 0 and 5 beyond, mirrored; the
\* constructed book holds these arrays, with best_bid() = -1 and best_ask()
\* = 1.
C7_InitialLadder ==
    calls = <<>> =>
          /\ InitialShape(_initialize_orders(_depth, _levels), _levels)
          /\ Len(PriceArray(_levels)) = 2001
          /\ InitialShape(<<bid_size, ask_size>>, _levels)
          /\ best_bid(bid_size, ask_size).value = <<-1>>
          /\ best_ask(bid_size, ask_size).value = <<1>>

\* The book as constructed, before any call.
C7_Witness ==
    /\ calls = <<>>
    /\ <<bid_size, ask_size>> = _initialize_orders(_depth, _levels)
    /\ Cell(bid_size, -8) = 5 /\ Cell(bid_size, -1) = 1
    /\ Cell(ask_size, 0) = 0 /\ Cell(ask_size, 1) = 1 /\ Cell(ask_size, 8) = 5

\* C8: on a book whose relevant side holds no positive cell, best_ask(),
\* best_bid(), spread(), mid(), market_buy() and market_sell() fail with the
\* empty-book error and leave bid_size and ask_size as they were.
C8_EmptySide ==
    Called =>
        LET noAsk == Occupied(prev_ask) = {}
            noBid == Occupied(prev_bid) = {}
            fails == Last.outcome = EmptyBookError /\ Unchanged
        IN  /\ (Last.op \in {"best_ask", "market_buy"} /\ noAsk) => fails
            /\ (Last.op \in {"best_bid", "market_sell"} /\ noBid) => fails
            /\ (Last.op \in {"spread", "mid"} /\ (noAsk \/ noBid)) => fails

\* market_buy has been called on a book with bids and no asks.
C8_Witness ==
    /\ Called
    /\ Last.op = "market_buy"
    /\ Occupied(prev_ask) = {} /\ Occupied(prev_bid) # {}
    /\ Last.outcome = EmptyBookError
    /\ Unchanged

\* C9: a cancel or a market order for more than the cell holds is reported
\* as an error or clamped at zero: a call that completes never takes a cell
\* from a quantity >= 0 to one below 0.
C9_NoSilentNegative ==
    (Called /\ Last.outcome = "ok"
            /\ Last.op \in {"cancel_buy", "cancel_sell", "market_buy", "market_sell"})
        => \A t \in Ticks :
              /\ Cell(prev_bid, t) >= 0 => Cell(bid_size, t) >= 0
              /\ Cell(prev_ask, t) >= 0 => Cell(ask_size, t) >= 0

\* C10: limit_buy(price, qty) / limit_sell(price, qty) at an on-ladder price
\* complete, add exactly qty to the cell of their side at that price and
\* change no other cell of either side, whatever the opposite side holds.
C10_LimitFrame ==
    (Called /\ Last.op \in {"limit_buy", "limit_sell"} /\ Last.price[1] \in Ticks)
        => LET p == Last.price[1]
           IN  /\ Last.outcome = "ok"
               /\ Last.op = "limit_buy" =>
                     /\ bid_size = WithCell(prev_bid, p, Cell(prev_bid, p) + Last.qty)
                     /\ ask_size = prev_ask
               /\ Last.op = "limit_sell" =>
                     /\ ask_size = WithCell(prev_ask, p, Cell(prev_ask, p) + Last.qty)
                     /\ bid_size = prev_bid

\* A limit buy has been placed above the best ask, which still rests there.
C10_Witness ==
    /\ Called /\ Last.op = "limit_buy" /\ Last.outcome = "ok"
    /\ Occupied(prev_ask) # {}
    /\ Last.price[1] > Lowest(Occupied(prev_ask))
    /\ Cell(bid_size, Last.price[1]) = Cell(prev_bid, Last.price[1]) + Last.qty
    /\ ask_size = prev_ask

\* The spec's InvalidPriceError is, in the source, the IndexError of taking
\* element 0 of the empty selection self.price == price.
InvalidPriceError == "IndexError"

\* C11: limit_buy / limit_sell, and cancel_buy / cancel_sell by explicit
\* price, with a price outside [-L, L] fail with InvalidPriceError and leave
\* bid_size and ask_size unchanged.
C11_OffLadderPrice ==
    (Called /\ Last.op \in {"limit_buy", "limit_sell", "cancel_buy", "cancel_sell"}
            /\ Last.price # <<>> /\ Last.price[1] \notin Ticks)
        => Last.outcome = InvalidPriceError /\ Unchanged

\* A limit sell one tick above the ladder has failed on a book with orders.
C11_Witness ==
    /\ Called /\ Last.op = "limit_sell" /\ Last.price = <<_levels + 1>>
    /\ Occupied(prev_bid) # {} /\ Occupied(prev_ask) # {}
    /\ Last.outcome = InvalidPriceError
    /\ Unchanged

----------------------------------------------------------------------------
(* Vocabulary of the event-layer properties.                               *)

\* The ticks where array a is not zero.
NonZero(a) == {t \in Ticks : Cell(a, t) # 0}

RECURSIVE SumTicks(_, _)
SumTicks(a, S) ==
    IF S = {} THEN 0
    ELSE LET t == CHOOSE x \in S : TRUE
         IN  Cell(a, t) + SumTicks(a, S \ {t})

\* The total of array a over the ticks of S; the zero cells add nothing.
SumCells(a, S) == SumTicks(a, S \cap NonZero(a))

RECURSIVE SumSeq(_)
SumSeq(q) == IF q = <<>> THEN 0 ELSE Head(q) + SumSeq(Tail(q))

TwoSided(bid, ask) == Occupied(bid) # {} /\ Occupied(ask) # {}

OneSided(bid, ask) == (Occupied(bid) = {}) # (Occupied(ask) = {})

\* The ticks within L ticks of quote q.
Window(q, L) == {t \in Ticks : t >= q - L /\ t <= q + L}

\* Resting bid / ask quantity within L ticks of the opposite best quote.
NetBuys(bid, ask, L) == SumCells(bid, Window(Lowest(Occupied(ask)), L))

NetSells(bid, ask, L) == SumCells(ask, Window(Highest(Occupied(bid)), L))

\* The six SFGK weights in halves (so that 0.5*mu is the integer mu), in the
\* order market_buy, market_sell, limit_buy, limit_sell, cancel_buy,
\* cancel_sell.
SfgkWeights(bid, ask, a) ==
    <<a[1], a[1], 2 * a[4] * a[2], 2 * a[4] * a[2],
      2 * NetBuys(bid, ask, a[4]) * a[3], 2 * NetSells(bid, ask, a[4]) * a[3]>>

\* The position of an event kind in the weights.
KindIndex(kind) ==
    CASE kind = "market_buy"  -> 1
      [] kind = "market_sell" -> 2
      [] kind = "limit_buy"   -> 3
      [] kind = "limit_sell"  -> 4
      [] kind = "cancel_buy"  -> 5
      [] kind = "cancel_sell" -> 6

\* C12: for a two-sided book and rates (mu, lambda, theta, L), sfgk_model
\* computes the six weights 0.5*mu, 0.5*mu, L*lambda, L*lambda,
\* net_buys*theta, net_sells*theta, which sum to the normaliser cum_rate
\* (here 2*cum_rate, the weights being in halves), and selects an event kind
\* only if its weight is positive.
C12_SfgkWeights ==
    (Called /\ Last.op = "sfgk_model" /\ TwoSided(prev_bid, prev_ask))
        => LET w        == SfgkWeights(prev_bid, prev_ask, Last.args)
               cum_rate == Last.args[1] + 2 * Last.args[4] * Last.args[2]
                           + NetBuys(prev_bid, prev_ask, Last.args[4]) * Last.args[3]
                           + NetSells(prev_bid, prev_ask, Last.args[4]) * Last.args[3]
           IN  /\ Last.weights = w
               /\ SumSeq(Last.weights) = 2 * cum_rate
               /\ Last.event # <<>> => w[KindIndex(Last.event[1])] > 0

\* C13: with mu = 0, lambda = 0, theta > 0 on a one-sided non-empty book,
\* every invocation of sfgk_model, however many came before, selects a
\* cancel event and applies it: one unit leaves the book.
C13_CancelOnly ==
    (Called /\ Last.op = "sfgk_model" /\ OneSided(prev_bid, prev_ask)
            /\ Last.args[1] = 0 /\ Last.args[2] = 0 /\ Last.args[3] > 0)
        => /\ Last.outcome = "ok"
           /\ Last.event \in {<<"cancel_buy">>, <<"cancel_sell">>}
           /\ SumCells(bid_size, Ticks) + SumCells(ask_size, Ticks)
                = SumCells(prev_bid, Ticks) + SumCells(prev_ask, Ticks) - 1

\* C14: sfgk_model on a two-sided book with positive total rate completes
\* and applies exactly one order operation of the selected kind: one cell
\* of one side changes by 1 (market_buy: best ask -1; market_sell: best bid
\* -1; limit_buy: +1 at best_ask - q, q in 1..L; limit_sell: +1 at
\* best_bid + q, q in 1..L; cancel_buy / cancel_sell: -1 at one bid / ask
\* tick) and nothing else changes.
C14_OneOperation ==
    (Called /\ Last.op = "sfgk_model" /\ TwoSided(prev_bid, prev_ask)
            /\ SumSeq(SfgkWeights(prev_bid, prev_ask, Last.args)) > 0)
        => LET a == Lowest(Occupied(prev_ask))
               b == Highest(Occupied(prev_bid))
               L == Last.args[4]
               Bump(arr, t, by) == WithCell(arr, t, Cell(arr, t) + by)
           IN  /\ Last.outcome = "ok"
               /\ Last.event # <<>>
               /\ Last.event = <<"market_buy">> =>
                     ask_size = Bump(prev_ask, a, -1) /\ bid_size = prev_bid
               /\ Last.event = <<"market_sell">> =>
                     bid_size = Bump(prev_bid, b, -1) /\ ask_size = prev_ask
               /\ Last.event = <<"limit_buy">> =>
                     /\ \E q \in 1..L : bid_size = Bump(prev_bid, a - q, 1)
                     /\ ask_size = prev_ask
               /\ Last.event = <<"limit_sell">> =>
                     /\ \E q \in 1..L : ask_size = Bump(prev_ask, b + q, 1)
                     /\ bid_size = prev_bid
               /\ Last.event = <<"cancel_buy">> =>
                     /\ \E t \in Ticks : bid_size = Bump(prev_bid, t, -1)
                     /\ ask_size = prev_ask
               /\ Last.event = <<"cancel_sell">> =>
                     /\ \E t \in Ticks : ask_size = Bump(prev_ask, t, -1)
                     /\ bid_size = prev_bid

\* A cell of after is below its value in before only where before held
\* resting quantity.
TakenFromResting(before, after) ==
    \A t \in Ticks : Cell(after, t) < Cell(before, t) => Cell(before, t) > 0

DegenerateRateError == "ValueError"

\* The rates passed to an event model are all zero.
ZeroRates(op, a) ==
    /\ a[1] = 0
    /\ op = "sfgk_model" => a[2] = 0 /\ a[3] = 0
    /\ op = "cst_model" => SumSeq(a[2]) = 0 /\ SumSeq(a[3]) = 0

\* C16: when the six event-class rates sum to zero (here: every rate
\* argument is zero), sfgk_model and cst_model report DegenerateRateError
\* and leave bid_size and ask_size unchanged.
C16_DegenerateRate ==
    (Called /\ Last.op \in {"sfgk_model", "cst_model"} /\ ZeroRates(Last.op, Last.args))
        => Last.outcome = DegenerateRateError /\ Unchanged

\* C17: sfgk_simulate / cst_simulate with max_events = N >= 1 and mu > 0 on
\* a two-sided book invoke the event model exactly 1000 + N times.
C17_EventCount ==
    (Called /\ Last.op \in {"sfgk_simulate", "cst_simulate"}
            /\ TwoSided(prev_bid, prev_ask)
            /\ Last.args[1] > 0 /\ Last.args[5] >= 1)
        => Last.invocations = BurnIn + Last.args[5]

\* C18: for max_events >= 1 and mu > 0 on a two-sided book, sfgk_simulate
\* returns a shape of length 2*L+1, cst_simulate one of length L+1, and
\* every element of the shape (a pair <<sum, divisor>>) is non-negative.
C18_ShapeLength ==
    (Called /\ Last.op \in {"sfgk_simulate", "cst_simulate"}
            /\ TwoSided(prev_bid, prev_ask)
            /\ Last.args[1] > 0 /\ Last.args[5] >= 1)
        => /\ Last.outcome = "ok"
           /\ Last.op = "sfgk_simulate" => Len(Last.value) = 2 * Last.args[4] + 1
           /\ Last.op = "cst_simulate" => Len(Last.value) = Last.args[4] + 1
           /\ \A k \in 1..Len(Last.value) : Last.value[k][1] >= 0

----------------------------------------------------------------------------
(* Vocabulary of the estimator properties.                                 *)

\* Estimator fn is running or has run; a pass of its loop has completed.
Running(fn) == mc # Idle /\ mc.fn = fn

Passed(fn) == Running(fn) /\ mc.ans # -1

Abs(x) == IF x < 0 THEN -x ELSE x

\* C19: in prob_mid started with xb >= 1 and xs >= 1, every step changes
\* exactly one of xb, xs by exactly 1; a trial ends at the first step after
\* which xb = 0 or xs = 0 and is counted a success exactly when xs reached
\* 0; xb and xs are never negative and never both 0.
C19_ProbMidTrial ==
    /\ (Running("prob_mid") /\ mc.pc = "loop") => mc.qb_old >= 1 /\ mc.qs_old >= 1
    /\ Passed("prob_mid") =>
          /\ mc.qb_from >= 1 /\ mc.qs_from >= 1
          /\ \/ Abs(mc.qb_new - mc.qb_from) = 1 /\ mc.qs_new = mc.qs_from
             \/ mc.qb_new = mc.qb_from /\ Abs(mc.qs_new - mc.qs_from) = 1
          /\ mc.qb_new >= 0 /\ mc.qs_new >= 0
          /\ ~(mc.qb_new = 0 /\ mc.qs_new = 0)
          /\ (mc.verdict # "continue") <=> (mc.qb_new = 0 \/ mc.qs_new = 0)
          /\ (mc.verdict = "success") <=> (mc.qs_new = 0)
          /\ mc.count = mc.count_from + (IF mc.qs_new = 0 THEN 1 ELSE 0)

\* A trial started with two sell orders has ended in a success, the bid
\* side still holding orders.
C19_Witness ==
    /\ Passed("prob_mid")
    /\ mc.xs = 2 /\ mc.qs_from = 1 /\ mc.qs_new = 0 /\ mc.qb_new >= 1
    /\ mc.verdict = "success" /\ mc.count = mc.count_from + 1

\* C20: in limit_order_prob a trial ends exactly when d reaches 0, counted
\* as a success, or when xs reaches 0 while d > 0, counted as a failure; no
\* trial continues past either condition and none is counted a success
\* with d > 0.
C20_LimitOrderTrial ==
    /\ (Running("limit_order_prob") /\ mc.pc = "loop") =>
          mc.d_old # 0 /\ ~(mc.qs_old = 0 /\ mc.d_old > 0)
    /\ Passed("limit_order_prob") =>
          /\ mc.d_new = 0 => mc.verdict = "success"
          /\ (mc.qs_new = 0 /\ mc.d_new > 0) => mc.verdict = "fail"
          /\ (mc.d_new # 0 /\ mc.qs_new # 0) => mc.verdict = "continue"
          /\ mc.verdict = "success" => mc.d_new = 0 /\ mc.count = mc.count_from + 1
          /\ mc.verdict # "success" => mc.count = mc.count_from

\* A trial has ended in a failure: the ask side emptied while the order,
\* second in its queue at the start, was still waiting.
C20_Witness ==
    /\ Passed("limit_order_prob")
    /\ mc.dpos = 2 /\ mc.qs_new = 0 /\ mc.d_new > 0
    /\ mc.verdict = "fail" /\ mc.count = mc.count_from

\* C21: in prob_making_spread a trial is counted a success only when
\* bid_pos and ask_pos are both 0 after the same step, and it ends without
\* a success whenever xb has reached 0 while ask_pos > 0 or xs has reached 0
\* while bid_pos > 0.
C21_SpreadTrial ==
    Passed("prob_making_spread") =>
        /\ mc.verdict = "success" => mc.d_new = 0 /\ mc.a_new = 0
        /\ mc.count = mc.count_from + (IF mc.d_new = 0 /\ mc.a_new = 0 THEN 1 ELSE 0)
        /\ ((mc.qb_new = 0 /\ mc.a_new > 0) \/ (mc.qs_new = 0 /\ mc.d_new > 0)) =>
              mc.verdict = "fail" /\ mc.count = mc.count_from

\* A trial has failed with the agent's buy order filled: the bid side ran
\* out while the sell order was still waiting.
C21_Witness ==
    /\ Passed("prob_making_spread")
    /\ mc.d_new = 0 /\ mc.qb_new = 0 /\ mc.a_new > 0
    /\ mc.verdict = "fail" /\ mc.count = mc.count_from

\* C22: each estimator runs exactly n trials, every trial starts from the
\* caller's xb, xs and positions, and count grows by at most one per trial:
\* 0 <= count <= trials finished <= n throughout, and the call returns
\* count / n after the n-th trial.
C22_Trials ==
    mc # Idle =>
        /\ 0 <= mc.count /\ mc.count <= mc.i /\ mc.i <= mc.n
        /\ mc.count - mc.count_from \in {0, 1}
        /\ (mc.pc = "loop" /\ mc.verdict # "continue") =>
              /\ mc.i < mc.n
              /\ mc.qb_old = mc.xb /\ mc.qs_old = mc.xs
              /\ mc.d_old = mc.dpos /\ mc.a_old = mc.apos
        /\ (mc.pc = "loop" /\ mc.verdict = "continue") => mc.i < mc.n
        /\ mc.pc = "returned" <=> (mc.n > 0 /\ mc.i = mc.n)
        /\ mc.pc = "returned" => mc.outcome = "ok" /\ mc.value = <<mc.count, mc.n>>

\* The second trial of a call of two has started from the caller's queue
\* sizes after a first trial that moved them and was counted.
C22_Witness ==
    /\ Running("prob_mid") /\ mc.n = 2 /\ mc.i = 1 /\ mc.count = 1 /\ mc.pc = "loop"
    /\ mc.verdict = "success" /\ mc.qs_new = 0 /\ mc.qb_new # mc.xb
    /\ mc.qb_old = mc.xb /\ mc.qs_old = mc.xs

\* C23: two runs on two separate Book instances share no ladder state:
\* in any interleaving, a call on one book leaves the other book's
\* bid_size and ask_size unchanged, and each book holds what it would hold
\* had its own calls run alone in the same order.
C23_SeparateBooks ==
    instances.built =>
        /\ instances.actor # 0 =>
              ArraysOf(instances, 3 - instances.actor) = instances.rest
        /\ \A k \in Instances : ArraysOf(instances, k) = instances.solo[k]

\* Both books have been called, the last call changed its own book, and the
\* two books now differ.
C23_Witness ==
    /\ instances.built
    /\ instances.done[1] > 0 /\ instances.done[2] > 0
    /\ instances.actor = 1
    /\ ArraysOf(instances, 1) # ArraysOf(instances, 2)
    /\ ArraysOf(instances, 2) = instances.rest
    /\ ArraysOf(instances, 2) # BuildInstances(_initialize_orders(_get_depth, _get_levels)).rest

\* C24: on a ladder with the sides it reads non-empty, best_bid() is the
\* highest tick with bid_size > 0, best_ask() the lowest tick with
\* ask_size > 0, spread() is best_ask() - best_bid() and mid() is
\* (best_ask() + best_bid()) / 2; none of the four changes the ladder.
C24_Queries ==
    (Called /\ Last.op \in {"best_bid", "best_ask", "spread", "mid"}) =>
        /\ Unchanged
        /\ (Last.op = "best_bid" /\ Occupied(prev_bid) # {}) =>
              Last.outcome = "ok" /\ Last.value = <<Highest(Occupied(prev_bid))>>
        /\ (Last.op = "best_ask" /\ Occupied(prev_ask) # {}) =>
              Last.outcome = "ok" /\ Last.value = <<Lowest(Occupied(prev_ask))>>
        /\ (Last.op = "spread" /\ Occupied(prev_bid) # {} /\ Occupied(prev_ask) # {}) =>
              /\ Last.outcome = "ok"
              /\ Last.value = <<Lowest(Occupied(prev_ask)) - Highest(Occupied(prev_bid))>>
        /\ (Last.op = "mid" /\ Occupied(prev_bid) # {} /\ Occupied(prev_ask) # {}) =>
              /\ Last.outcome = "ok"
              /\ Last.value = <<Lowest(Occupied(prev_ask)) + Highest(Occupied(prev_bid)), 2>>

\* mid() has answered on a ladder with bids at several ticks and asks at
\* several ticks.
C24_Witness ==
    /\ Called /\ Last.op = "mid" /\ Last.outcome = "ok"
    /\ Lowest(Occupied(prev_bid)) < Highest(Occupied(prev_bid))
    /\ Lowest(Occupied(prev_ask)) < Highest(Occupied(prev_ask))
    /\ Last.value = <<Lowest(Occupied(prev_ask)) + Highest(Occupied(prev_bid)), 2>>
    /\ Unchanged

\* The tick holding the q-th resting unit of array a, counted from the
\* highest price downward / from the lowest price upward.
\* The running total changes at the non-zero cells only, so the tick is one
\* of them.
UnitTickDown(a, q) ==
    Highest({t \in NonZero(a) : SumTicks(a, {u \in NonZero(a) : u >= t}) >= q})

UnitTickUp(a, q) ==
    Lowest({t \in NonZero(a) : SumTicks(a, {u \in NonZero(a) : u <= t}) >= q})

\* C25: cancel_buy without a price and with cancelable_orders = N, 1 <= N
\* <= total resting bid quantity, completes and, for the drawn q in 1..N,
\* takes qty from bid_size at exactly the tick holding the q-th resting buy
\* unit counted from the highest price downward, a tick with bid_size > 0;
\* cancel_sell does the same on the ask side counting from the lowest price
\* upward.  No other cell changes.
C25_RandomCancel ==
    (Called /\ Last.op \in {"cancel_buy", "cancel_sell"} /\ Last.price = <<>>
            /\ Last.cancelable_orders # <<>>
            /\ Last.cancelable_orders[1] >= 1
            /\ Last.cancelable_orders[1] <=
                 SumCells(IF Last.op = "cancel_buy" THEN prev_bid ELSE prev_ask, Ticks))
        => /\ Last.outcome = "ok"
           /\ Last.op = "cancel_buy" =>
                 /\ \E q \in 1..Last.cancelable_orders[1] :
                       LET t == UnitTickDown(prev_bid, q)
                       IN  /\ Cell(prev_bid, t) > 0
                           /\ bid_size = WithCell(prev_bid, t, Cell(prev_bid, t) - Last.qty)
                 /\ ask_size = prev_ask
           /\ Last.op = "cancel_sell" =>
                 /\ \E q \in 1..Last.cancelable_orders[1] :
                       LET t == UnitTickUp(prev_ask, q)
                       IN  /\ Cell(prev_ask, t) > 0
                           /\ ask_size = WithCell(prev_ask, t, Cell(prev_ask, t) - Last.qty)
                 /\ bid_size = prev_bid

RECURSIVE Dot(_, _)
\* np.dot of two sequences of the same length.
Dot(x, y) == IF x = <<>> THEN 0 ELSE Head(x) * Head(y) + Dot(Tail(x), Tail(y))

\* C26: in cst_model on a two-sided book whose window lies inside the
\* ladder, cb[d] is bid_size at tick best_ask - d and cs[d] is ask_size at
\* tick best_bid + d for every d in 1..L, and the six weights mu, mu,
\* sum(lambdas), sum(lambdas), dot(thetas, cb), dot(thetas, cs) sum to the
\* normaliser cum_rate.
C26_CstGather ==
    (Called /\ Last.op = "cst_model" /\ TwoSided(prev_bid, prev_ask)
            /\ Lowest(Occupied(prev_ask)) - Last.args[4] \in Ticks
            /\ Highest(Occupied(prev_bid)) + Last.args[4] \in Ticks)
        => LET a  == Lowest(Occupied(prev_ask))
               b  == Highest(Occupied(prev_bid))
               L  == Last.args[4]
               cb == [d \in 1..L |-> Cell(prev_bid, a - d)]
               cs == [d \in 1..L |-> Cell(prev_ask, b + d)]
           IN  /\ Last.gathered = <<cb, cs>>
               /\ Last.weights = <<Last.args[1], Last.args[1],
                                   SumSeq(Last.args[2]), SumSeq(Last.args[2]),
                                   Dot(Last.args[3], cb), Dot(Last.args[3], cs)>>
               /\ SumSeq(Last.weights) = 2 * Last.args[1] + 2 * SumSeq(Last.args[2])
                                         + Dot(Last.args[3], cb) + Dot(Last.args[3], cs)

\* The tick of the cell book_shape takes as mid: the mid position
\* floor((bid_position + ask_position) / 2) of the 1-based positions of the
\* best quotes, used as an index counted from 0.
MidTick(bid, ask) ==
    ((Highest(Occupied(bid)) + _levels + 1) + (Lowest(Occupied(ask)) + _levels + 1)) \div 2
        - _levels

\* C27: book_shape(band), on a two-sided book with the band inside the
\* ladder, returns a sequence of length 2*band+1 without changing the
\* ladder: the bid quantities of the band+1 consecutive ticks immediately
\* below mid, in increasing price order, then the ask quantities of the
\* band consecutive ticks from mid upward.  No call of book_shape changes
\* the ladder.
C27_BookShape ==
    (Called /\ Last.op = "book_shape") =>
        /\ Unchanged
        /\ (/\ TwoSided(prev_bid, prev_ask)
            /\ MidTick(prev_bid, prev_ask) - Last.args[1] - 1 \in Ticks
            /\ MidTick(prev_bid, prev_ask) + Last.args[1] - 1 \in Ticks) =>
              LET band == Last.args[1]
                  m    == MidTick(prev_bid, prev_ask)
              IN  /\ Last.outcome = "ok"
                  /\ Len(Last.value) = 2 * band + 1
                  /\ \A k \in 1..(band + 1) :
                        Last.value[k] = Cell(prev_bid, m - band - 2 + k)
                  /\ \A k \in 1..band :
                        Last.value[band + 1 + k] = Cell(prev_ask, m + k - 1)

\* A shape of band 2 has been returned that holds resting bids and resting
\* asks, from a book whose best quotes are an odd number of ticks apart.
C27_Witness ==
    /\ Called /\ Last.op = "book_shape" /\ Last.args = <<2>> /\ Last.outcome = "ok"
    /\ TwoSided(prev_bid, prev_ask)
    /\ (Lowest(Occupied(prev_ask)) - Highest(Occupied(prev_bid))) % 2 = 1
    /\ Len(Last.value) = 5
    /\ \E k \in 1..3 : Last.value[k] > 0
    /\ \E k \in 4..5 : Last.value[k] > 0
    /\ Unchanged

\* Element k (from 1) of the shape of band L around the mid of a book.
ShapeCell(bid, ask, L, k) ==
    IF k <= L + 1 THEN Cell(bid, MidTick(bid, ask) - L - 2 + k)
    ELSE Cell(ask, MidTick(bid, ask) + (k - L - 1) - 1)

\* C28: cst_simulate returns a sequence whose element 0 is the averaged
\* value at index L of the 2L+1 averaged shape, unmixed, and whose element
\* d, for d in 1..L, is the mean of the averaged values at index L-d (bid
\* side) and index L+d (ask side).  Stated for numEvents = 1, where the
\* averaged shape is the shape of the book the call leaves behind: the
\* elements are fractions <<numerator, denominator>>.
C28_CstSymmetrize ==
    (Called /\ Last.op = "cst_simulate" /\ TwoSided(prev_bid, prev_ask)
            /\ Last.args[1] > 0 /\ Last.args[5] = 1)
        => LET L == Last.args[4]
           IN  /\ Last.outcome = "ok"
               /\ Last.value[1] = <<ShapeCell(bid_size, ask_size, L, L + 1), 1>>
               /\ \A d \in 1..L :
                     Last.value[d + 1] =
                        <<ShapeCell(bid_size, ask_size, L, L + 1 - d)
                          + ShapeCell(bid_size, ask_size, L, L + 1 + d), 2>>

\* C29: sfgk_simulate / cst_simulate with max_events = N >= 1 accumulate
\* exactly N samples, each weighted 1/N, take none before the 1000 burn-in
\* events and apply exactly one event between consecutive samples: N
\* samples and 1000 + (N - 1) events in a completed run.
C29_Samples ==
    (Called /\ Last.op \in {"sfgk_simulate", "cst_simulate"}
            /\ TwoSided(prev_bid, prev_ask)
            /\ Last.args[1] > 0 /\ Last.args[5] >= 1)
        => /\ Last.outcome = "ok"
           /\ Last.samples = Last.args[5]
           /\ Last.invocations = BurnIn + Last.args[5] - 1
           /\ Last.samples > 0 => Last.invocations >= BurnIn
           /\ Last.op = "sfgk_simulate" =>
                 \A k \in 1..Len(Last.value) : Last.value[k][2] = Last.args[5]

\* The total rate cum_rate of the estimator's next draw, and the divisors
\* of its cancel-position ratios, read where the cancel can be drawn.
TotalRate(m) ==
    CASE m.fn = "prob_mid" ->
            2 * Mu + 2 * Lamda + Theta * m.qb_old + Theta * m.qs_old
      [] m.fn = "limit_order_prob" ->
            2 * Mu + 2 * Lamda + Theta * (m.qb_old - 1) + Theta * m.qs_old
      [] m.fn = "prob_making_spread" ->
            2 * Mu + 2 * Lamda
            + Theta * (IF m.d_old = 0 THEN m.qb_old ELSE m.qb_old - 1)
            + Theta * (IF m.a_old = 0 THEN m.qs_old ELSE m.qs_old - 1)

RatioDivisors(m) ==
    CASE m.fn = "prob_mid" -> {}
      [] m.fn = "limit_order_prob" ->
            IF Theta * (m.qb_old - 1) > 0 THEN {m.qb_old - 1} ELSE {}
      [] m.fn = "prob_making_spread" ->
            {x \in {IF m.d_old = 0 THEN m.qb_old ELSE m.qb_old - 1,
                    IF m.a_old = 0 THEN m.qs_old ELSE m.qs_old - 1} : Theta * x > 0}

\* No trial state that goes on has a zero total rate or a zero divisor.
RatesDefined ==
    (mc # Idle /\ mc.pc = "loop") => TotalRate(mc) > 0 /\ 0 \notin RatioDivisors(mc)

\* The running call stands at a loop head with a queue longer than
\* MaxQueue, where the exploration leaves it.
Beyond ==
    mc # Idle /\ mc.pc = "loop" /\ (mc.qb_old > MaxQueue \/ mc.qs_old > MaxQueue)

\* A call of estimator fn for n >= 1 trials returns after its n-th trial,
\* unless a queue grows beyond MaxQueue first.
Finishes(fn) ==
    (Running(fn) /\ mc.n >= 1) ~>
        ((Running(fn) /\ mc.pc = "returned" /\ mc.i = mc.n) \/ Beyond)

\* A call of an estimator ends, by returning or by raising, unless a queue
\* grows beyond MaxQueue first.
EstimatorsEnd ==
    (mc # Idle) ~> ((mc # Idle /\ mc.pc \in {"returned", "raised"}) \/ Beyond)

\* C30: every trial of prob_mid, limit_order_prob and prob_making_spread
\* started from positive queue sizes and positions reaches its absorbing
\* condition under fair event selection, so each estimator finishes after
\* n trials; no reachable non-absorbing state has a zero total rate or a
\* division by zero in the cancel-position ratio.
C30_Termination ==
    /\ []RatesDefined
    /\ Finishes("prob_mid")
    /\ Finishes("limit_order_prob")
    /\ Finishes("prob_making_spread")

\* Parts of C31, over limit_order_prob: the position and the ask queue at
\* the head of the loop; when a cancel-buy is drawn; when it reduces d.
C31_TrialState ==
    (Running("limit_order_prob") /\ mc.pc = "loop") =>
        1 <= mc.d_old /\ mc.d_old <= mc.qb_old /\ mc.qs_old >= 1

C31_CancelEnabled ==
    (Passed("limit_order_prob") /\ mc.ans = 3) => mc.qb_from >= 2

C31_CancelAhead ==
    (Passed("limit_order_prob") /\ mc.ans = 3) =>
        /\ mc.qb_new = mc.qb_from - 1 /\ mc.qs_new = mc.qs_from
        /\ mc.d_new \in {mc.d_from, mc.d_from - 1}
        /\ mc.d_new < mc.d_from => mc.d_from >= 2
        /\ mc.d_new # 0

C31_CancelLast ==
    (Passed("limit_order_prob") /\ mc.ans = 3 /\ mc.d_from = mc.qb_from) =>
        mc.d_new = mc.d_from - 1

C31_FilledBySell ==
    (Passed("limit_order_prob") /\ mc.d_new = 0) => mc.ans = 2

\* C31: in limit_order_prob started with 1 <= dpos <= xb and xs >= 1,
\* every non-terminal trial state has 1 <= d <= xb and xs >= 1; a cancel-buy
\* is drawn only when xb >= 2, reduces d only when d >= 2, always reduces d
\* when d = xb and never takes d to 0, so d reaches 0 only through a market
\* sell.
C31_PositionInQueue ==
    /\ C31_TrialState
    /\ C31_CancelEnabled
    /\ C31_CancelAhead
    /\ C31_CancelLast
    /\ C31_FilledBySell

\* Parts of C32, over prob_making_spread (bid_pos in the d_ fields, ask_pos
\* in the a_ fields): the positions within their queues, before and after
\* every pass; a position at 0 stays there; what a cancel does to a
\* position of 1.
C32_Within ==
    Running("prob_making_spread") =>
        /\ 0 <= mc.d_old /\ mc.d_old <= mc.qb_old
        /\ 0 <= mc.a_old /\ mc.a_old <= mc.qs_old
        /\ 0 <= mc.d_new /\ mc.d_new <= mc.qb_new
        /\ 0 <= mc.a_new /\ mc.a_new <= mc.qs_new

C32_ZeroStays ==
    Passed("prob_making_spread") =>
        /\ mc.d_from = 0 => mc.d_new = 0
        /\ mc.a_from = 0 => mc.a_new = 0

C32_CancelKeepsOne ==
    (Passed("prob_making_spread") /\ mc.ans \in {4, 5}) =>
        /\ mc.d_from = 1 => mc.d_new = 1
        /\ mc.a_from = 1 => mc.a_new = 1

\* C32: in prob_making_spread started with 1 <= bid_pos <= xb and
\* 1 <= ask_pos <= xs, every reachable trial state has 0 <= bid_pos <= xb
\* and 0 <= ask_pos <= xs; a position that has reached 0 stays 0 for the
\* rest of the trial, and a cancel never takes a position from 1 to 0.
C32_SpreadPositions ==
    /\ C32_Within
    /\ C32_ZeroStays
    /\ C32_CancelKeepsOne

\* Every tick holding bids lies strictly below every tick holding asks.
Uncrossed(bid, ask) == \A s \in Occupied(bid), t \in Occupied(ask) : s < t

\* Array arr with by added to the cell at tick t.
Bumped(arr, t, by) == WithCell(arr, t, Cell(arr, t) + by)

\* Parts of C33: the book as it stands; the limit order of a generated
\* event, which lands q >= 1 ticks inside the opposite best quote; the
\* spread of a two-sided book.
C33_Uncrossed == Uncrossed(bid_size, ask_size)

C33_Generated ==
    (Called /\ Last.op \in {"sfgk_model", "cst_model"} /\ Last.event # <<>>)
        => /\ Last.event[1] = "limit_buy" =>
                 \E q \in 1..Last.args[4] :
                     /\ bid_size = Bumped(prev_bid, Lowest(Occupied(prev_ask)) - q, 1)
                     /\ ask_size = prev_ask
           /\ Last.event[1] = "limit_sell" =>
                 \E q \in 1..Last.args[4] :
                     /\ ask_size = Bumped(prev_ask, Highest(Occupied(prev_bid)) + q, 1)
                     /\ bid_size = prev_bid

C33_Spread ==
    TwoSided(bid_size, ask_size) =>
        spread(bid_size, ask_size).value[1] >= 1

C34_NonNegative ==
    \A t \in Ticks : Cell(bid_size, t) >= 0 /\ Cell(ask_size, t) >= 0

C34_Removal ==
    (Called /\ Last.op = "sfgk_model" /\ Last.event # <<>>)
        => /\ Last.event = <<"cancel_buy">> =>
                 \E t \in Window(Lowest(Occupied(prev_ask)), Last.args[4]) :
                     /\ Cell(prev_bid, t) > 0
                     /\ bid_size = Bumped(prev_bid, t, -1) /\ ask_size = prev_ask
           /\ Last.event = <<"cancel_sell">> =>
                 \E t \in Window(Highest(Occupied(prev_bid)), Last.args[4]) :
                     /\ Cell(prev_ask, t) > 0
                     /\ ask_size = Bumped(prev_ask, t, -1) /\ bid_size = prev_bid
           /\ Last.event = <<"market_buy">> =>
                 /\ Cell(prev_ask, Lowest(Occupied(prev_ask))) > 0
                 /\ ask_size = Bumped(prev_ask, Lowest(Occupied(prev_ask)), -1)
                 /\ bid_size = prev_bid
           /\ Last.event = <<"market_sell">> =>
                 /\ Cell(prev_bid, Highest(Occupied(prev_bid))) > 0
                 /\ bid_size = Bumped(prev_bid, Highest(Occupied(prev_bid)), -1)
                 /\ ask_size = prev_ask

====
